---------------------------- MODULE Spec2Model ----------------------------
(***************************************************************************)
(* A model of c/src/ctype.c: six functions that each build a temporary     *)
(* locale_t with newlocale(), install it in the calling thread's locale    *)
(* register with uselocale(), run one <wchar.h>/<wctype.h> primitive,      *)
(* put LC_GLOBAL_LOCALE back and free the temporary locale.                *)
(*                                                                         *)
(* The libc primitives are modelled by what glibc does: newlocale() may    *)
(* fail, uselocale((locale_t)0) is a query, freelocale((locale_t)0) is     *)
(* undefined, mbrtowc()/wcrtomb() transcode UTF-8 under a UTF-8 locale and *)
(* ASCII under the "C" locale.                                             *)
(***************************************************************************)
EXTENDS Integers, Sequences, FiniteSets

(***************************************************************************)
(* Bounds of the model.                                                    *)
(***************************************************************************)
\* Size of the pool newlocale() allocates locale objects from.
MaxHandles == 2
\* Deepest nesting of calls on one thread (1 = no reentrancy).
MaxDepth == 2

Threads == {1, 2}
MainThread == CHOOSE t \in Threads : \A u \in Threads : t <= u

(***************************************************************************)
(* Values of locale_t.                                                     *)
(***************************************************************************)
\* (locale_t)0: what newlocale() returns on failure.
NullLocale == 0
\* LC_GLOBAL_LOCALE, ((locale_t) -1L) in <locale.h>.
LC_GLOBAL_LOCALE == -1
Handles == 1..MaxHandles
\* A locale object the caller of thread t made and installed itself.
CallerLocale(t) == MaxHandles + MaxDepth + t

(***************************************************************************)
(* size_t and ssize_t.  Only the wrap-around of (size_t)-1 and (size_t)-2  *)
(* matters to the code (the comparison on line 37, the conversion on line  *)
(* 59), so the width is scaled down to SizeBits bits.                      *)
(***************************************************************************)
SizeBits == 16
SizeMod == 2 ^ SizeBits
SIZE_MAX == SizeMod - 1
ToSizeT(x) == x % SizeMod
ToSSizeT(x) == IF x >= SizeMod \div 2 THEN x - SizeMod ELSE x

(***************************************************************************)
(* UTF-8 as glibc's UTF-8 locales transcode it.                            *)
(***************************************************************************)
IsSurrogate(wc) == wc >= 55296 /\ wc <= 57343

\* Number of bytes of the encoding of wc, 0 when wc has none.
Utf8Len(wc) ==
    IF wc < 0 \/ IsSurrogate(wc) THEN 0
    ELSE IF wc < 128 THEN 1
    ELSE IF wc < 2048 THEN 2
    ELSE IF wc < 65536 THEN 3
    ELSE IF wc < 2097152 THEN 4
    ELSE IF wc < 67108864 THEN 5
    ELSE 6

Pow64(k) == 64 ^ k

\* The lead byte of an n-byte sequence carries this marker.
LeadMark(n) ==
    CASE n = 1 -> 0
      [] n = 2 -> 192
      [] n = 3 -> 224
      [] n = 4 -> 240
      [] n = 5 -> 248
      [] n = 6 -> 252

Utf8Encode(wc) ==
    LET n == Utf8Len(wc)
    IN  [i \in 1..n |->
            IF i = 1 THEN LeadMark(n) + (wc \div Pow64(n - 1))
            ELSE 128 + ((wc \div Pow64(n - i)) % 64)]

\* Length announced by a lead byte, 0 for a byte that cannot lead.
LeadLen(b) ==
    IF b < 128 THEN 1
    ELSE IF b >= 194 /\ b <= 223 THEN 2
    ELSE IF b >= 224 /\ b <= 239 THEN 3
    ELSE IF b >= 240 /\ b <= 247 THEN 4
    ELSE IF b >= 248 /\ b <= 251 THEN 5
    ELSE IF b >= 252 /\ b <= 253 THEN 6
    ELSE 0

IsCont(b) == b >= 128 /\ b <= 191

RECURSIVE Utf8Value(_, _, _)
\* The value of bytes[1..n]: the lead byte's payload, then 6 bits per byte.
Utf8Value(bytes, n, i) ==
    IF i = 1 THEN bytes[1] - LeadMark(n)
    ELSE Utf8Value(bytes, n, i - 1) * 64 + (bytes[i] - 128)

(***************************************************************************)
(* mbrtowc(pwc, s, n, ps) from the initial shift state.  The result is a   *)
(* record: r is the size_t return value and wc the wide character stored   *)
(* (<<>> when nothing is stored).  s is the sequence of bytes at the       *)
(* pointer; at most n of them are read.                                    *)
(***************************************************************************)
Min(a, b) == IF a < b THEN a ELSE b

mbrtowc_utf8(s, n) ==
    LET avail == Min(n, Len(s))
    IN  IF avail = 0 THEN [r |-> ToSizeT(-2), wc |-> <<>>]
        ELSE LET cnt == LeadLen(s[1])
             IN  IF cnt = 0 THEN [r |-> ToSizeT(-1), wc |-> <<>>]
                 ELSE IF cnt = 1
                      THEN [r |-> IF s[1] = 0 THEN 0 ELSE 1, wc |-> <<s[1]>>]
                 ELSE IF \E i \in 2..Min(cnt, avail) : ~IsCont(s[i])
                      THEN [r |-> ToSizeT(-1), wc |-> <<>>]
                 ELSE IF avail < cnt THEN [r |-> ToSizeT(-2), wc |-> <<>>]
                 ELSE LET v == Utf8Value(s, cnt, cnt)
                      IN  IF Utf8Len(v) # cnt
                          THEN [r |-> ToSizeT(-1), wc |-> <<>>]
                          ELSE [r |-> cnt, wc |-> <<v>>]

\* The "C" locale: one byte, one character, ASCII only.
mbrtowc_c(s, n) ==
    LET avail == Min(n, Len(s))
    IN  IF avail = 0 THEN [r |-> ToSizeT(-2), wc |-> <<>>]
        ELSE IF s[1] >= 128 THEN [r |-> ToSizeT(-1), wc |-> <<>>]
        ELSE [r |-> IF s[1] = 0 THEN 0 ELSE 1, wc |-> <<s[1]>>]

\* codeset is "UTF-8" or "ASCII": the LC_CTYPE codeset of the locale the
\* calling thread's register selects.
mbrtowc(codeset, s, n) ==
    IF codeset = "UTF-8" THEN mbrtowc_utf8(s, n) ELSE mbrtowc_c(s, n)

(***************************************************************************)
(* wcrtomb(s, wc, ps) from the initial shift state: r is the size_t return *)
(* value, bytes what was written.                                          *)
(***************************************************************************)
wcrtomb(codeset, wc) ==
    IF codeset = "UTF-8"
    THEN IF Utf8Len(wc) = 0 THEN [r |-> ToSizeT(-1), bytes |-> <<>>]
         ELSE [r |-> Utf8Len(wc), bytes |-> Utf8Encode(wc)]
    ELSE IF wc >= 0 /\ wc < 128 THEN [r |-> 1, bytes |-> <<wc>>]
         ELSE [r |-> ToSizeT(-1), bytes |-> <<>>]

(***************************************************************************)
(* <wctype.h> under the two codesets: the "C" locale classifies ASCII, a   *)
(* UTF-8 locale also knows U+3000 IDEOGRAPHIC SPACE and the letters        *)
(* U+00E9 / U+00C9.  The classifiers return non-zero for "yes".            *)
(***************************************************************************)
iswspace(codeset, ch) ==
    IF ch \in {9, 10, 11, 12, 13, 32} \/ (codeset = "UTF-8" /\ ch = 12288)
    THEN 8192 ELSE 0

iswblank(codeset, ch) ==
    IF ch \in {9, 32} \/ (codeset = "UTF-8" /\ ch = 12288) THEN 1 ELSE 0

towupper(codeset, ch) ==
    IF ch >= 97 /\ ch <= 122 THEN ch - 32
    ELSE IF codeset = "UTF-8" /\ ch = 233 THEN 201
    ELSE ch

towlower(codeset, ch) ==
    IF ch >= 65 /\ ch <= 90 THEN ch + 32
    ELSE IF codeset = "UTF-8" /\ ch = 201 THEN 233
    ELSE ch

(***************************************************************************)
(* Inputs the callers are given.                                           *)
(***************************************************************************)
\* wchar_t arguments of wctoutf8: NUL, 'A', U+00E9, U+3042, a surrogate,
\* U+10000 and (wchar_t)WEOF.
WcharInputs == {0, 65, 233, 12354, 55296, 65536, -1}

\* (utf8_bytes, length) arguments of utf8towc.  length never exceeds the
\* buffer unless the decoder stops inside the buffer.
Utf8Inputs ==
    { <<(<<65>>), 1>>, <<(<<65>>), 0>>, <<(<<65, 66>>), 2>>,
      <<(<<0>>), 1>>,
      <<(<<195, 169>>), 2>>, <<(<<195, 169>>), 1>>,
      <<(<<227, 129, 130>>), 3>>, <<(<<227, 129>>), 2>>,
      <<(<<195, 169, 65>>), 3>>,
      <<(<<195, 65>>), 2>>, <<(<<237, 160, 128>>), 3>>,
      <<(<<255>>), 1>>, <<(<<255>>), SIZE_MAX>> }

\* wint_t arguments of the classification and case-mapping functions.
WintInputs == {32, 65, 97, 12288}

\* The inputs of the specifications with several calls in progress.
SmallUtf8Inputs == { <<(<<227, 129, 130>>), 3>> }
SmallWcharInputs == {12354}
SmallWintInputs == {32}

Transcoders == {"utf8towc", "wctoutf8"}
Classifiers ==
    {"iswspace_native", "iswblank_native", "towupper_native", "towlower_native"}
Ops == Transcoders \cup Classifiers

\* The functions that test the result of newlocale() (lines 28, 50, 73).
ChecksNull(op) == op \in {"utf8towc", "wctoutf8", "iswspace_native"}

\* What they return when it is NULL (lines 29, 51, 74).
FailureSignal(op) ==
    CASE op = "utf8towc" -> 1
      [] op = "wctoutf8" -> -1
      [] op = "iswspace_native" -> -1

\* The codeset the environment gives the locale named "".
NativeCodesets == {"ASCII", "UTF-8"}

(***************************************************************************)
(* State.                                                                  *)
(***************************************************************************)
VARIABLES
    reg,      \* reg[t]: the locale register of thread t (what uselocale sets)
    hkind,    \* hkind[h]: "free", or the codeset of the live locale object h
    stack,    \* stack[t]: the calls of thread t that are in progress, the
              \* innermost last; a finished outermost call stays, "returned"
    crashed   \* the process died of the undefined freelocale((locale_t)0)

vars == <<reg, hkind, stack, crashed>>

Live == {h \in Handles : hkind[h] # "free"}

Depth(t) == Len(stack[t])
Top(t) == stack[t][Depth(t)]
Active(t) == IF Depth(t) = 0 THEN FALSE ELSE Top(t).pc # "returned"

\* The codesets a primitive may see when the register holds v.  The global
\* locale and a caller's own locale are the "C" locale; a freed locale
\* object is a dangling pointer and may read as anything.
Codesets(v) ==
    IF v \in Handles
    THEN IF hkind[v] = "free" THEN {"ASCII", "UTF-8"} ELSE {hkind[v]}
    ELSE {"ASCII"}

(***************************************************************************)
(* A call frame.  op, wc, bytes, len are the function and its arguments;   *)
(* pc the next line to run; l the local `l`; ret and out the return value  *)
(* and what was stored through the output pointer.  The other fields       *)
(* record what the call did: pre is the register at entry, tried the       *)
(* newlocale() attempts, trace the register and primitive steps in order,  *)
(* under the register value the primitive ran under, freed the arguments   *)
(* given to freelocale(), rt the character whose encoding the call was     *)
(* given, sig the nested calls that ran between this call's install step    *)
(* and its primitive.                                                      *)
(***************************************************************************)
NewFrame(t, op, wc, bytes, len, rt) ==
    [ op |-> op, wc |-> wc, bytes |-> bytes, len |-> len,
      pc |-> IF op \in Transcoders THEN "primary" ELSE "native",
      l |-> NullLocale, ret |-> 0, out |-> <<>>,
      pre |-> reg[t], tried |-> <<>>, trace |-> <<>>, under |-> <<>>,
      freed |-> <<>>, rt |-> rt, sig |-> {} ]

SetTop(t, f) == stack' = [stack EXCEPT ![t][Depth(t)] = f]

\* The function returns: an outermost call stays on the stack as
\* "returned"; a nested call is popped and noted in the call it interrupted.
Finish(t, f) ==
    IF Depth(t) = 1
    THEN SetTop(t, [f EXCEPT !.pc = "returned"])
    ELSE LET outer == stack[t][Depth(t) - 1]
             note == [at |-> outer.pc, restored |-> "restore" \in
                         {f.trace[i] : i \in 1..Len(f.trace)}]
         IN  stack' = [stack EXCEPT ![t] =
                 Append(SubSeq(@, 1, Depth(t) - 2),
                        IF outer.pc = "prim"
                        THEN [outer EXCEPT !.sig = @ \cup {note}]
                        ELSE outer)]

Init ==
    /\ reg \in [Threads -> {LC_GLOBAL_LOCALE}] \cup
               {[t \in Threads |-> CallerLocale(t)]}
    /\ hkind = [h \in Handles |-> "free"]
    /\ stack = [t \in Threads |-> <<>>]
    /\ crashed = FALSE

Idle(t) == ~crashed /\ (IF Depth(t) = 0 THEN TRUE ELSE Top(t).pc = "returned")

\* A new outermost call replaces the finished one.
Enter(t, f) ==
    /\ Idle(t)
    /\ stack' = [stack EXCEPT ![t] = <<f>>]
    /\ UNCHANGED <<reg, hkind, crashed>>

Call_utf8towc(t, inputs) ==
    \E in \in inputs :
        Enter(t, NewFrame(t, "utf8towc", 0, in[1], in[2], <<>>))

\* utf8towc on exactly the bytes the thread's last wctoutf8 wrote.
Call_utf8towc_roundtrip(t) ==
    /\ Depth(t) = 1
    /\ Top(t).op = "wctoutf8" /\ Top(t).pc = "returned" /\ Top(t).ret > 0
    /\ Enter(t, NewFrame(t, "utf8towc", 0, Top(t).out, Top(t).ret,
                         <<Top(t).wc>>))

Call_wctoutf8(t, inputs) ==
    \E wc \in inputs :
        Enter(t, NewFrame(t, "wctoutf8", wc, <<>>, 0, <<>>))

Call_classifier(t, inputs) ==
    \E op \in Classifiers, ch \in inputs :
        Enter(t, NewFrame(t, op, ch, <<>>, 0, <<>>))

(***************************************************************************)
(* newlocale(): NULL, or a locale object taken from the pool (the lowest   *)
(* free one: the objects are interchangeable, and a freed one is handed    *)
(* out again at once).  The `if (!l) return` that follows it in three of   *)
(* the functions is part of the step.                                      *)
(***************************************************************************)
\* utf8_locale() without its second attempt.
AfterNewlocale_NoFallback(t, f, name, h) ==
    LET g == [f EXCEPT !.l = h, !.tried = Append(@, <<name, h # NullLocale>>)]
    IN  IF h = NullLocale /\ ChecksNull(f.op)
        THEN Finish(t, [g EXCEPT !.ret = FailureSignal(f.op)])
        ELSE SetTop(t, [g EXCEPT !.pc = "uselocale"])

\* The call continues with local l = h after trying `name`.
AfterNewlocale(t, f, name, h) ==
    LET g == [f EXCEPT !.l = h, !.tried = Append(@, <<name, h # NullLocale>>)]
    IN  IF h = NullLocale /\ name = "C.UTF-8"
        THEN SetTop(t, [g EXCEPT !.pc = "fallback"])
        ELSE IF h = NullLocale /\ ChecksNull(f.op)
        THEN Finish(t, [g EXCEPT !.ret = FailureSignal(f.op)])
        ELSE SetTop(t, [g EXCEPT !.pc = "uselocale"])

Newlocale(t, name, codesets) ==
    \/ /\ AfterNewlocale(t, Top(t), name, NullLocale)
       /\ UNCHANGED <<reg, hkind, crashed>>
    \/ \E h \in Handles, cs \in codesets :
          /\ hkind[h] = "free" /\ \A k \in 1..(h - 1) : hkind[k] # "free"
          /\ hkind' = [hkind EXCEPT ![h] = cs]
          /\ AfterNewlocale(t, Top(t), name, h)
          /\ UNCHANGED <<reg, crashed>>

\* utf8_locale(), line 17.
NewlocalePrimary(t) ==
    /\ ~crashed /\ Active(t) /\ Top(t).pc = "primary"
    /\ Newlocale(t, "C.UTF-8", {"UTF-8"})

\* utf8_locale(), lines 18-21.
NewlocaleFallback(t) ==
    /\ ~crashed /\ Active(t) /\ Top(t).pc = "fallback"
    /\ Newlocale(t, "en_US.UTF-8", {"UTF-8"})

\* newlocale(LC_CTYPE_MASK, "", 0), lines 72, 88, 101, 114.
NewlocaleNative(t) ==
    /\ ~crashed /\ Active(t) /\ Top(t).pc = "native"
    /\ Newlocale(t, "", NativeCodesets)

(***************************************************************************)
(* (void)uselocale(l): installs l in the thread's register; with l = NULL  *)
(* it only queries and the register stays.                                 *)
(***************************************************************************)
uselocale(t, newloc) ==
    reg' = [reg EXCEPT ![t] = IF newloc = NullLocale THEN @ ELSE newloc]

Uselocale(t) ==
    /\ ~crashed /\ Active(t) /\ Top(t).pc = "uselocale"
    /\ uselocale(t, Top(t).l)
    /\ SetTop(t, [Top(t) EXCEPT !.pc = "prim", !.trace = Append(@, "install")])
    /\ UNCHANGED <<hkind, crashed>>

(***************************************************************************)
(* The one primitive of each function, run under the codeset of the        *)
(* register, and the function's own translation of its result.             *)
(***************************************************************************)
\* utf8towc, lines 33-39.
utf8towc_result(cs, f) ==
    LET m == mbrtowc(cs, f.bytes, f.len)
    IN  [ret |-> IF m.r # ToSizeT(f.len) THEN 2 ELSE 0, out |-> m.wc]

\* wctoutf8 testing `ret == 0` where the code tests `ret <= 0`.
wctoutf8_result_ZeroOnly(cs, f) ==
    LET w == wcrtomb(cs, f.wc)
        ret == ToSSizeT(w.r)
    IN  [ret |-> IF ret = 0 THEN -2 ELSE ret, out |-> w.bytes]

\* wctoutf8, lines 55-62.
wctoutf8_result(cs, f) ==
    LET w == wcrtomb(cs, f.wc)
        ret == ToSSizeT(w.r)
    IN  [ret |-> IF ret <= 0 THEN -2 ELSE ret, out |-> w.bytes]

\* iswspace_native, lines 78 and 82.
iswspace_native_result(cs, f) ==
    [ret |-> IF iswspace(cs, f.wc) # 0 THEN 1 ELSE 0, out |-> <<>>]

PrimResult(cs, f) ==
    CASE f.op = "utf8towc" -> utf8towc_result(cs, f)
      [] f.op = "wctoutf8" -> wctoutf8_result(cs, f)
      [] f.op = "iswspace_native" -> iswspace_native_result(cs, f)
      [] f.op = "iswblank_native" -> [ret |-> iswblank(cs, f.wc), out |-> <<>>]
      [] f.op = "towupper_native" -> [ret |-> towupper(cs, f.wc), out |-> <<>>]
      [] f.op = "towlower_native" -> [ret |-> towlower(cs, f.wc), out |-> <<>>]

Primitive(t) ==
    /\ ~crashed /\ Active(t) /\ Top(t).pc = "prim"
    /\ \E cs \in Codesets(reg[t]) :
          LET res == PrimResult(cs, Top(t))
          IN  SetTop(t, [Top(t) EXCEPT !.pc = "restore",
                                       !.ret = res.ret, !.out = res.out,
                                       !.under = <<reg[t]>>,
                                       !.trace = Append(@, "prim")])
    /\ UNCHANGED <<reg, hkind, crashed>>

\* The restore step installing l once more instead of LC_GLOBAL_LOCALE.
RestoreValue_Keep(t) == Top(t).l

\* The restore step putting back the locale found at entry.
RestoreValue_Previous(t) == Top(t).pre

\* (void)uselocale(LC_GLOBAL_LOCALE), lines 41, 64, 80, 93, 106, 119.
RestoreValue(t) == LC_GLOBAL_LOCALE

RestoreGlobal(t) ==
    /\ ~crashed /\ Active(t) /\ Top(t).pc = "restore"
    /\ uselocale(t, RestoreValue(t))
    /\ SetTop(t, [Top(t) EXCEPT !.pc = "free", !.trace = Append(@, "restore")])
    /\ UNCHANGED <<hkind, crashed>>

(***************************************************************************)
(* freelocale(l); return.  freelocale((locale_t)0) is undefined: glibc     *)
(* dereferences the pointer and the process dies, musl does nothing.       *)
(***************************************************************************)
Freelocale(t) ==
    /\ ~crashed /\ Active(t) /\ Top(t).pc = "free"
    /\ LET f == [Top(t) EXCEPT !.freed = Append(@, Top(t).l),
                               !.trace = Append(@, "free")]
       IN  IF f.l # NullLocale
           THEN /\ hkind' = [hkind EXCEPT ![f.l] = "free"]
                /\ Finish(t, f)
                /\ UNCHANGED <<reg, crashed>>
           ELSE \/ /\ Finish(t, f)
                   /\ UNCHANGED <<reg, hkind, crashed>>
                \/ /\ crashed' = TRUE
                   /\ SetTop(t, f)
                   /\ UNCHANGED <<reg, hkind>>

(***************************************************************************)
(* A signal handler (or callback) of the thread calls one of the functions *)
(* while a call of the thread is in progress: before that call's install   *)
(* step, between its install step and its primitive, or between its        *)
(* primitive and its restore step.                                         *)
(***************************************************************************)
Interrupt(t) ==
    /\ ~crashed /\ Active(t) /\ Depth(t) < MaxDepth
    /\ Top(t).pc \in {"uselocale", "prim", "restore"}
    /\ \E op \in {"iswspace_native", "towupper_native"} :
          stack' = [stack EXCEPT ![t] =
                       Append(@, NewFrame(t, op, 65, <<>>, 0, <<>>))]
    /\ UNCHANGED <<reg, hkind, crashed>>

Step(t) ==
    \/ NewlocalePrimary(t)
    \/ NewlocaleFallback(t)
    \/ NewlocaleNative(t)
    \/ Uselocale(t)
    \/ Primitive(t)
    \/ RestoreGlobal(t)
    \/ Freelocale(t)

\* One thread calls the functions one call after the other.
Next ==
    \/ Call_utf8towc(MainThread, Utf8Inputs)
    \/ Call_utf8towc_roundtrip(MainThread)
    \/ Call_wctoutf8(MainThread, WcharInputs)
    \/ Call_classifier(MainThread, WintInputs)
    \/ Step(MainThread)

Spec == Init /\ [][Next]_vars

\* Several threads call the functions concurrently, each one call at a time.
NextThreads ==
    \E t \in Threads :
        \/ Call_utf8towc(t, SmallUtf8Inputs)
        \/ Call_wctoutf8(t, SmallWcharInputs)
        \/ Call_classifier(t, SmallWintInputs)
        \/ Step(t)

SpecThreads == Init /\ [][NextThreads]_vars

\* One thread, whose calls may be interrupted by nested calls.
NextReentrant ==
    \/ Call_utf8towc(MainThread, SmallUtf8Inputs)
    \/ Call_wctoutf8(MainThread, SmallWcharInputs)
    \/ Call_classifier(MainThread, SmallWintInputs)
    \/ Step(MainThread)
    \/ Interrupt(MainThread)

SpecReentrant == Init /\ [][NextReentrant]_vars

(***************************************************************************)
(* Properties.                                                             *)
(***************************************************************************)
Frames(t) == {stack[t][i] : i \in 1..Depth(t)}
AllFrames == UNION {Frames(t) : t \in Threads}
Returned(f) == f.pc = "returned"
\* newlocale() is over and gave the call no locale object.
ConstructionFailed(f) ==
    f.pc \notin {"primary", "fallback", "native"} /\ f.l = NullLocale
\* The Unicode scalar values: what UTF-8 encodes.
Encodable(c) == c >= 0 /\ c <= 1114111 /\ ~IsSurrogate(c)
\* s[1..n] is the encoding of exactly one character.
OneCharacter(s, n) ==
    /\ n >= 1 /\ n <= Len(s)
    /\ LeadLen(s[1]) = n
    /\ \A i \in 2..n : IsCont(s[i])
    /\ Utf8Len(Utf8Value(s, n, n)) = n

\* C1: when a call has returned, on success or failure, the thread's
\* register holds the value it held when the call was entered.
C1_RegisterPreserved ==
    \A t \in Threads :
        \A f \in Frames(t) : Returned(f) => reg[t] = f.pre

\* C2: a call releases each locale object it constructed exactly once
\* before it returns, never gives freelocale() the NULL of a failed
\* construction, and between calls no locale object is live.
C2_ReleaseDiscipline ==
    /\ \A f \in AllFrames :
          /\ \A i \in 1..Len(f.freed) : f.freed[i] # NullLocale
          /\ Returned(f) =>
                f.freed = (IF f.l = NullLocale THEN <<>> ELSE <<f.l>>)
    /\ (\A t \in Threads : ~Active(t)) => Live = {}

\* C3: in each of the six functions, a call whose locale construction
\* failed has returned its failure signal, has not run its primitive and
\* has made no uselocale() call.
C3_FailureSkipsEverything ==
    \A f \in AllFrames :
        ConstructionFailed(f) =>
            /\ Returned(f)
            /\ f.trace = <<>> /\ f.under = <<>>
            /\ ChecksNull(f.op) => f.ret = FailureSignal(f.op)

\* C4: with a UTF-8 locale available, wctoutf8 of an encodable character c
\* (U+0000 included) returns n > 0, and utf8towc on the n bytes it wrote
\* returns 0 and stores c.
C4_RoundTrip ==
    \A f \in AllFrames :
        Returned(f) /\ f.l # NullLocale =>
            /\ f.op = "wctoutf8" /\ Encodable(f.wc) => f.ret > 0
            /\ f.op = "utf8towc" /\ f.rt # <<>> =>
                  (Encodable(f.rt[1]) => f.ret = 0 /\ f.out = f.rt)

\* C5: with a UTF-8 locale available, utf8towc returns 0 exactly when the
\* first `length` bytes are consumed as one character, and 2 otherwise.
C5_DecodeStatus ==
    \A f \in AllFrames :
        Returned(f) /\ f.op = "utf8towc" /\ f.l # NullLocale =>
            f.ret = (IF OneCharacter(f.bytes, f.len) THEN 0 ELSE 2)

C7Safe ==
    \A t \in Threads :
        \A f \in Frames(t) :
            /\ f.under # <<>> => f.l # NullLocale /\ f.under[1] = f.l
            /\ Returned(f) /\ f.pre = LC_GLOBAL_LOCALE =>
                  reg[t] = LC_GLOBAL_LOCALE

C7_ThreadSafe ==
    [][ /\ \A t \in Threads : reg'[t] # reg[t] => stack'[t] # stack[t]
        /\ C7Safe' ]_vars

\* C8 as claimed: whenever a nested call ran between the install step and
\* the primitive of a call, that primitive ran with the register not
\* holding the call's own locale object.
C8_NestedAlwaysClobbers ==
    \A f \in AllFrames :
        f.under # <<>> /\ (\E n \in f.sig : n.at = "prim") =>
            f.under[1] # f.l

\* C8: whenever a nested call that got as far as its restore step ran
\* between the install step and the primitive of a call, that primitive
\* ran with the register holding the global marker, not the call's own
\* locale object.
C8_NestedRestoreClobbers ==
    \A f \in AllFrames :
        f.under # <<>> /\ (\E n \in f.sig : n.at = "prim" /\ n.restored) =>
            f.under[1] = LC_GLOBAL_LOCALE /\ f.under[1] # f.l

C8_Witness ==
    \E f \in AllFrames :
        /\ f.l # NullLocale /\ f.under = <<LC_GLOBAL_LOCALE>>
        /\ \E n \in f.sig : n.at = "prim" /\ n.restored

\* C9: utf8towc and wctoutf8 try "C.UTF-8" first and "en_US.UTF-8" only
\* after it failed, construct at most one locale object per call, and
\* return LocaleUnavailable (1, -1) exactly when both names failed.
C9_LocaleFallback ==
    \A f \in AllFrames :
        f.op \in Transcoders =>
            /\ f.tried \in { <<>>,
                             << <<"C.UTF-8", TRUE>> >>,
                             << <<"C.UTF-8", FALSE>> >>,
                             << <<"C.UTF-8", FALSE>>, <<"en_US.UTF-8", TRUE>> >>,
                             << <<"C.UTF-8", FALSE>>, <<"en_US.UTF-8", FALSE>> >> }
            /\ f.pc \notin {"primary", "fallback"} =>
                  /\ f.tried # <<>>
                  /\ f.tried # << <<"C.UTF-8", FALSE>> >>
                  /\ f.l # NullLocale <=> f.tried[Len(f.tried)][2]
            /\ Returned(f) =>
                  (f.ret = FailureSignal(f.op) <=>
                     f.tried = << <<"C.UTF-8", FALSE>>,
                                  <<"en_US.UTF-8", FALSE>> >>)

C9_Witness ==
    \E f \in AllFrames :
        /\ Returned(f) /\ f.op = "utf8towc" /\ f.ret = 0
        /\ f.tried = << <<"C.UTF-8", FALSE>>, <<"en_US.UTF-8", TRUE>> >>

\* C10: in sequential calls the register never holds a locale object that
\* has been released: the object is out of the register before
\* freelocale(), and the primitive runs after the install step and before
\* the restore step.
C10_Ordering ==
    \A t \in Threads :
        /\ reg[t] \in Handles => hkind[reg[t]] # "free"
        /\ \A f \in Frames(t) :
              /\ \E k \in 0..4 :
                    f.trace = SubSeq(<<"install", "prim", "restore", "free">>,
                                     1, k)
              /\ f.pc = "free" => reg[t] # f.l
              /\ f.under # <<>> /\ f.l # NullLocale => f.under[1] = f.l

C10_Witness ==
    \E t \in Threads :
        \E f \in Frames(t) :
            /\ Returned(f) /\ f.l # NullLocale /\ f.freed = <<f.l>>
            /\ hkind[f.l] = "free" /\ reg[t] = LC_GLOBAL_LOCALE

=============================================================================
